---------------------------- MODULE Spec2Model ----------------------------
(***************************************************************************)
(* Model of package customer (src/dwolla/customer/customer.go): the twelve *)
(* operations that call the Dwolla REST API.  Every operation runs the     *)
(* same stages: c.AuthToken(), optional payload encoding, http.NewRequest  *)
(* plus Header.Add, hc.Do, and a switch on res.StatusCode.  An invocation  *)
(* is a record that moves through these stages; the parts that differ per  *)
(* operation (request line, headers, status switch) are one operator each. *)
(***************************************************************************)
EXTENDS Integers, Sequences, FiniteSets, TLC

VARIABLES inv, wire

vars == <<inv, wire>>

(***************************************************************************)
(* Bounds of the model.                                                    *)
(***************************************************************************)
\* Longest collection a list response holds under one key.
MaxEntries == 2

\* Number of invocations that run concurrently.
MaxCalls == 2

\* Most redirects a server answers to one request.
MaxRedirects == 1

(***************************************************************************)
(* Go values.                                                              *)
(***************************************************************************)
\* A nil error.
NilErr == "<nil>"

\* A nil client.DwollaClient in an entity's Client field.
NoClient == "<nil client>"

\* A nil *Customer / *Document.
NilPtr == [nil |-> TRUE]

\* The (absent) result value of a function that returns only an error.
Void == "<void>"

\* errors.Wrap(err, msg).Error()
Wrap(err, msg) == msg \o ": " \o err

\* strings.HasPrefix
HasPrefix(s, p) == Len(s) >= Len(p) /\ SubSeq(s, 1, Len(p)) = p

\* strings.HasSuffix
HasSuffix(s, p) == Len(s) >= Len(p) /\ SubSeq(s, Len(s) - Len(p) + 1, Len(s)) = p

\* strings.Contains
Contains(s, p) == \E k \in 1..(Len(s) - Len(p) + 1) : SubSeq(s, k, k + Len(p) - 1) = p

\* strings.TrimPrefix: s without the leading p, or s itself when it does not
\* start with p.
TrimPrefix(s, p) == IF HasPrefix(s, p) THEN SubSeq(s, Len(p) + 1, Len(s)) ELSE s

\* m[k] of a Go map: the zero value (a nil slice) for a key that is absent.
Lookup(m, k) == IF k \in DOMAIN m THEN m[k] ELSE <<>>

\* http.Header.Get
Get(h, k) == IF k \in DOMAIN h THEN h[k] ELSE ""

\* All sequences over S of length at most n.
BSeq(S, n) == UNION {[1..k -> S] : k \in 0..n}

(***************************************************************************)
(* The client (client.DwollaClient), an interface the package only calls.  *)
(***************************************************************************)
Clients == {"sandbox", "production"}

\* c.RootURL(): fixed per environment.
RootURL(c) == IF c = "sandbox" THEN "https://api-sandbox.example.com"
                               ELSE "https://api.example.com"

\* Tokens c.AuthToken() may hand out.
Tokens == {"tokA", "tokB"}

\* Results of c.AuthToken(): a token and a nil error, or an error.
AuthTokenResults ==
    {[token |-> t, err |-> NilErr] : t \in Tokens}
        \cup {[token |-> "", err |-> "invalid_client"]}

(***************************************************************************)
(* Inputs of the operations.                                               *)
(***************************************************************************)
Ops == {"Create", "List", "GetCustomer", "Update", "AddDocument",
        "ListDocuments", "GetDocument", "CreateFundingSource",
        "CreateFundingSourceToken", "CreateIAVFundingSourceToken",
        "ListFundingSources", "ListTransfers"}

\* Operations that return a slice.
ListOps == {"List", "ListDocuments", "ListFundingSources", "ListTransfers"}

\* Operations that return a pointer to one entity.
EntityOps == {"GetCustomer", "GetDocument"}

\* Operations that return a string.
StringOps == {"Create", "CreateFundingSourceToken", "CreateIAVFundingSourceToken"}

\* Operations that return only an error.
ErrorOnlyOps == {"Update", "AddDocument", "CreateFundingSource"}

\* Operations that json.Marshal a payload or build a multipart body.
PayloadOps == {"Create", "Update", "CreateFundingSource", "AddDocument"}

\* IDs as stored in an entity.
EntityIds == {"abc-123", "xyz"}

\* IDs a caller may pass: the last one is not a valid URL escape.
Ids == EntityIds \cup {"%zz"}

\* cu.Links["self"].Href of the receiver of ListTransfers: absent, or the
\* customer's own resource.
SelfHrefs == {"", "https://api-sandbox.example.com/customers/abc-123"}

(***************************************************************************)
(* The HTTP side: what http.NewRequest accepts, what hc.Do hands back.     *)
(***************************************************************************)
HexDigits == {"0", "1", "2", "3", "4", "5", "6", "7", "8", "9",
              "a", "b", "c", "d", "e", "f", "A", "B", "C", "D", "E", "F"}

\* url.Parse inside http.NewRequest: a "%" must start a two-digit hex escape.
URLParses(u) ==
    \A k \in 1..Len(u) :
        SubSeq(u, k, k) = "%" =>
            /\ k + 2 <= Len(u)
            /\ SubSeq(u, k + 1, k + 1) \in HexDigits
            /\ SubSeq(u, k + 2, k + 2) \in HexDigits

\* The transport of http.Client.Do only speaks http and https.
HasScheme(u) == HasPrefix(u, "https://") \/ HasPrefix(u, "http://")

\* Errors hc.Do may return.
TransportErrs == {"dial tcp: connection refused"}

\* The error of hc.Do for a URL its transport cannot take.
NoSchemeErr == "unsupported protocol scheme"

\* The status codes of the responses hc.Do returns; 304 stands for the 3xx
\* answers it does not follow.
StatusCodes == {200, 201, 204, 304, 400, 401, 403, 404, 500}

\* res.Status for res.StatusCode.
Status(code) ==
    CASE code = 200 -> "200 OK"
      [] code = 201 -> "201 Created"
      [] code = 204 -> "204 No Content"
      [] code = 304 -> "304 Not Modified"
      [] code = 400 -> "400 Bad Request"
      [] code = 401 -> "401 Unauthorized"
      [] code = 403 -> "403 Forbidden"
      [] code = 404 -> "404 Not Found"
      [] code = 500 -> "500 Internal Server Error"

\* Keys of the _embedded object of a list response.
CollectionKeys == {"customers", "documents", "funding-sources", "transfers"}

\* An entity as json decoding leaves it: no field of the JSON sets Client.
Decoded(id) == [Client |-> NoClient, ID |-> id]

\* The Embedded maps a list response may decode to.
Envelopes ==
    {(key :> entries) :
        key \in CollectionKeys,
        entries \in BSeq({Decoded(id) : id \in EntityIds}, MaxEntries)}

\* Errors d.Decode may return.
DecodeErrs == {"unexpected end of JSON input"}

\* What d.Decode(body) gives for the body type of each operation: its error
\* and the value left in body (after a failed decode, whatever was filled).
Bodies(op) ==
    LET errs == {NilErr} \cup DecodeErrs
    IN  CASE op \in ListOps ->
               {[err |-> e, val |-> [Embedded |-> m]] : e \in errs, m \in Envelopes}
          [] op \in EntityOps ->
               {[err |-> e, val |-> Decoded(id)] : e \in errs, id \in EntityIds}
                   \cup {[err |-> e, val |-> Decoded("")] : e \in DecodeErrs}
          [] op \in {"CreateFundingSourceToken", "CreateIAVFundingSourceToken"} ->
               {[err |-> e, val |-> [Token |-> t]] : e \in errs, t \in {"", "fs-token"}}
          [] OTHER ->
               {[err |-> e, val |-> Void] : e \in errs}

\* Location headers of a response to Create.
Locations(c) ==
    {"",
     RootURL(c) \o "/customers/abc-123",
     RootURL(c) \o "/customers/" \o RootURL(c) \o "/customers/xyz",
     "https://other.example.com/customers/abc-123"}

\* The responses hc.Do may return to an operation.
Responses(op, c) ==
    {[StatusCode |-> code, Status |-> Status(code), Location |-> loc, Body |-> b] :
        code \in StatusCodes,
        loc \in (IF op = "Create" THEN Locations(c) ELSE {""}),
        b \in Bodies(op)}

\* The three header values every JSON request is meant to carry.
HalJSON == "application/vnd.dwolla.v1.hal+json"

(***************************************************************************)
(* Requests: http.NewRequest and the Header.Add calls of each operation.   *)
(***************************************************************************)
NewReq(method, url, header, hasBody) ==
    [Method |-> method, URL |-> url, Header |-> header, HasBody |-> hasBody]

CreateRequest(c, token) ==
    NewReq("POST", RootURL(c) \o "/customers",
           ("Authorization" :> ("Bearer " \o token)) @@ ("Accept" :> HalJSON)
               @@ ("Content-Type" :> HalJSON),
           TRUE)

ListRequest(c, token) ==
    NewReq("GET", RootURL(c) \o "/customers",
           ("Authorization" :> ("Bearer " \o token)) @@ ("Accept" :> HalJSON),
           FALSE)

GetCustomerRequest(c, customerID, token) ==
    NewReq("GET", RootURL(c) \o "/customers/" \o customerID,
           ("Authorization" :> ("Bearer " \o token)) @@ ("Accept" :> HalJSON),
           FALSE)

UpdateRequest(c, id, token) ==
    NewReq("POST", RootURL(c) \o "/customers/" \o id,
           ("Authorization" :> ("Bearer " \o token)) @@ ("Accept" :> HalJSON)
               @@ ("Content-Type" :> HalJSON),
           TRUE)

AddDocumentRequest(c, id, token) ==
    NewReq("POST", RootURL(c) \o "/customers/+" \o id \o "/documents",
           ("Authorization" :> ("Bearer " \o token)) @@ ("Accept" :> HalJSON)
               @@ ("Content-Type" :>
                     "multipart/form-data; boundary=----WebKitFormBoundary7MA4YWxkTrZu0gW")
               @@ ("Cache-Control" :> "no-cache"),
           TRUE)

ListDocumentsRequest(c, id, token) ==
    NewReq("GET", RootURL(c) \o "/customers/" \o id \o "/documents",
           ("Authorization" :> ("Bearer " \o token)) @@ ("Accept" :> HalJSON),
           FALSE)

GetDocumentRequest(c, docuemntID, token) ==
    NewReq("GET", RootURL(c) \o "/documents/" \o docuemntID,
           ("Authorization" :> ("Bearer " \o token)) @@ ("Accept" :> HalJSON),
           FALSE)

CreateFundingSourceRequest(c, id, token) ==
    NewReq("POST", RootURL(c) \o "/customers/" \o id \o "/funding-sources",
           ("Authorization" :> ("Bearer " \o token)) @@ ("Accept" :> HalJSON)
               @@ ("Content-Type" :> HalJSON),
           TRUE)

CreateFundingSourceTokenRequest(c, id, token) ==
    NewReq("POST", RootURL(c) \o "/customers/" \o id \o "/funding-sources-token",
           ("Authorization" :> ("Bearer " \o token)) @@ ("Accept" :> HalJSON)
               @@ ("Content-Type" :> HalJSON),
           FALSE)

CreateIAVFundingSourceTokenRequest(c, id, token) ==
    NewReq("POST", RootURL(c) \o "/customers/" \o id \o "/iav-token",
           ("Authorization" :> ("Bearer " \o token)) @@ ("Accept" :> HalJSON)
               @@ ("Conetent-Type" :> HalJSON),
           FALSE)

ListFundingSourcesRequest(c, id, token) ==
    NewReq("GET", RootURL(c) \o "/customers/" \o id \o "/funding-sources",
           ("Authorization" :> ("Bearer " \o token)) @@ ("Accept" :> HalJSON)
               @@ ("Conetent-Type" :> HalJSON),
           FALSE)

ListTransfersRequest(self, token) ==
    NewReq("GET", self \o "/transfers",
           ("Authorization" :> ("Bearer " \o token)) @@ ("Accept" :> HalJSON),
           FALSE)

\* The request of operation op, called on client c with ID id (the
\* receiver's cu.ID, or the ID argument) and self link href self.
Request(op, c, id, self, token) ==
    CASE op = "Create" -> CreateRequest(c, token)
      [] op = "List" -> ListRequest(c, token)
      [] op = "GetCustomer" -> GetCustomerRequest(c, id, token)
      [] op = "Update" -> UpdateRequest(c, id, token)
      [] op = "AddDocument" -> AddDocumentRequest(c, id, token)
      [] op = "ListDocuments" -> ListDocumentsRequest(c, id, token)
      [] op = "GetDocument" -> GetDocumentRequest(c, id, token)
      [] op = "CreateFundingSource" -> CreateFundingSourceRequest(c, id, token)
      [] op = "CreateFundingSourceToken" -> CreateFundingSourceTokenRequest(c, id, token)
      [] op = "CreateIAVFundingSourceToken" -> CreateIAVFundingSourceTokenRequest(c, id, token)
      [] op = "ListFundingSources" -> ListFundingSourcesRequest(c, id, token)
      [] op = "ListTransfers" -> ListTransfersRequest(self, token)

(***************************************************************************)
(* Results: the switch on res.StatusCode of each operation.                *)
(***************************************************************************)
Ret(val, err) == [val |-> val, err |-> err]

\* A faulty variant of CreateSwitch: the prefix lacks its last slash.
CreateSwitchNoSlash(c, res) ==
    CASE res.StatusCode = 201 ->
           Ret(TrimPrefix(res.Location, RootURL(c) \o "/customers"), NilErr)
      [] res.StatusCode = 403 -> Ret("", "not authorized to create customers")
      [] res.StatusCode = 400 -> Ret("", "duplicate customer or validation error")
      [] res.StatusCode = 404 -> Ret("", "account not found")
      [] OTHER -> Ret("", res.Status)

CreateSwitch(c, res) ==
    CASE res.StatusCode = 201 ->
           Ret(TrimPrefix(res.Location, RootURL(c) \o "/customers/"), NilErr)
      [] res.StatusCode = 403 -> Ret("", "not authorized to create customers")
      [] res.StatusCode = 400 -> Ret("", "duplicate customer or validation error")
      [] res.StatusCode = 404 -> Ret("", "account not found")
      [] OTHER -> Ret("", res.Status)

\* for _, customer := range customers { customer.Client = c }: the loop
\* variable is a copy of the element, so the slice keeps its elements.
RangeSetClient(customers, c) ==
    LET customer == [k \in DOMAIN customers |-> [customers[k] EXCEPT !.Client = c]]
    IN  customers

ListSwitch(c, res) ==
    CASE res.StatusCode = 200 ->
           Ret(RangeSetClient(Lookup(res.Body.val.Embedded, "customers"), c), NilErr)
      [] res.StatusCode = 403 -> Ret(<<>>, "not authorized to list customers")
      [] res.StatusCode = 404 -> Ret(<<>>, "account not found")
      [] OTHER -> Ret(<<>>, res.Status)

GetCustomerSwitch(c, res) ==
    CASE res.StatusCode = 200 ->
           IF res.Body.err # NilErr
           THEN Ret(NilPtr, Wrap(res.Body.err, "error parsing JSON response"))
           ELSE Ret([res.Body.val EXCEPT !.Client = c], NilErr)
      [] res.StatusCode = 403 -> Ret(NilPtr, "not authorized to retrieve the customer")
      [] res.StatusCode = 404 -> Ret(NilPtr, "account not found")
      [] OTHER -> Ret(NilPtr, res.Status)

UpdateSwitch(c, res) ==
    CASE res.StatusCode = 200 -> Ret(Void, NilErr)
      [] res.StatusCode = 403 -> Ret(Void, "not authorized to update the customer")
      [] res.StatusCode = 404 -> Ret(Void, "account not found")
      [] OTHER -> Ret(Void, res.Status)

\* A faulty variant of AddDocumentSwitch: any 2xx status counts as success.
AddDocumentSwitchAny2xx(c, res) ==
    CASE res.StatusCode \in 200..299 -> Ret(Void, NilErr)
      [] res.StatusCode = 403 -> Ret(Void, "not authorized to uplaod document to customer")
      [] res.StatusCode = 404 -> Ret(Void, "account not found")
      [] OTHER -> Ret(Void, res.Status)

AddDocumentSwitch(c, res) ==
    CASE res.StatusCode = 201 -> Ret(Void, NilErr)
      [] res.StatusCode = 403 -> Ret(Void, "not authorized to uplaod document to customer")
      [] res.StatusCode = 404 -> Ret(Void, "account not found")
      [] OTHER -> Ret(Void, res.Status)

ListDocumentsSwitch(c, res) ==
    CASE res.StatusCode = 200 -> Ret(Lookup(res.Body.val.Embedded, "documents"), NilErr)
      [] res.StatusCode = 403 -> Ret(<<>>, "not authorized to list customers")
      [] res.StatusCode = 404 -> Ret(<<>>, "account not found")
      [] OTHER -> Ret(<<>>, res.Status)

GetDocumentSwitch(c, res) ==
    CASE res.StatusCode = 200 -> Ret(res.Body.val, NilErr)
      [] res.StatusCode = 403 -> Ret(NilPtr, "not authorized to retrieve the customer")
      [] res.StatusCode = 404 -> Ret(NilPtr, "account not found")
      [] OTHER -> Ret(NilPtr, res.Status)

CreateFundingSourceSwitch(c, res) ==
    CASE res.StatusCode = 201 -> Ret(Void, NilErr)
      [] res.StatusCode = 403 -> Ret(Void, "not authorized to create funding source")
      [] res.StatusCode = 400 ->
           Ret(Void, "duplicate funding source or validation error. Authorization already associated to a funding source")
      [] OTHER -> Ret(Void, res.Status)

CreateFundingSourceTokenSwitch(c, res) ==
    CASE res.StatusCode = 200 -> Ret(res.Body.val.Token, NilErr)
      [] res.StatusCode = 404 -> Ret("", "customer not found")
      [] OTHER -> Ret("", res.Status)

CreateIAVFundingSourceTokenSwitch(c, res) ==
    CASE res.StatusCode = 200 -> Ret(res.Body.val.Token, NilErr)
      [] res.StatusCode = 404 -> Ret("", "customer not found")
      [] OTHER -> Ret("", res.Status)

\* A faulty variant of CopySources: the loop stops before the last element.
CopySourcesShort(embedded, client) ==
    [k \in 1..(Len(embedded) - 1) |-> [Client |-> client, ID |-> embedded[k].ID]]

\* var sources; for _, s := range embedded { sources = append(sources,
\* funding.Resource{Client: cu.Client, ID: s.ID, ...}) }
RECURSIVE CopySources(_, _)
CopySources(embedded, client) ==
    IF embedded = <<>>
    THEN <<>>
    ELSE LET n == Len(embedded)
             s == embedded[n]
         IN  Append(CopySources(SubSeq(embedded, 1, n - 1), client),
                    [Client |-> client, ID |-> s.ID])

ListFundingSourcesSwitch(c, res) ==
    CASE res.StatusCode = 200 ->
           Ret(CopySources(Lookup(res.Body.val.Embedded, "funding-sources"), c), NilErr)
      [] res.StatusCode = 403 -> Ret(<<>>, "not authorized to list funding sources")
      [] res.StatusCode = 404 -> Ret(<<>>, "customer not found")
      [] OTHER -> Ret(<<>>, res.Status)

ListTransfersSwitch(c, res) ==
    CASE res.StatusCode = 200 -> Ret(Lookup(res.Body.val.Embedded, "transfers"), NilErr)
      [] res.StatusCode = 403 -> Ret(<<>>, "not authorized to list transfers")
      [] res.StatusCode = 404 -> Ret(<<>>, "customer not found")
      [] OTHER -> Ret(<<>>, res.Status)

\* What operation op, called on client c, returns for response res.
Switch(op, c, res) ==
    CASE op = "Create" -> CreateSwitch(c, res)
      [] op = "List" -> ListSwitch(c, res)
      [] op = "GetCustomer" -> GetCustomerSwitch(c, res)
      [] op = "Update" -> UpdateSwitch(c, res)
      [] op = "AddDocument" -> AddDocumentSwitch(c, res)
      [] op = "ListDocuments" -> ListDocumentsSwitch(c, res)
      [] op = "GetDocument" -> GetDocumentSwitch(c, res)
      [] op = "CreateFundingSource" -> CreateFundingSourceSwitch(c, res)
      [] op = "CreateFundingSourceToken" -> CreateFundingSourceTokenSwitch(c, res)
      [] op = "CreateIAVFundingSourceToken" -> CreateIAVFundingSourceTokenSwitch(c, res)
      [] op = "ListFundingSources" -> ListFundingSourcesSwitch(c, res)
      [] op = "ListTransfers" -> ListTransfersSwitch(c, res)

\* The value an operation returns beside a non-nil error.
ZeroValue(op) ==
    CASE op \in ListOps -> <<>>
      [] op \in EntityOps -> NilPtr
      [] op \in StringOps -> ""
      [] op \in ErrorOnlyOps -> Void

\* The status code on which an operation returns a nil error.
SuccessCode(op) ==
    IF op \in {"Create", "AddDocument", "CreateFundingSource"} THEN 201 ELSE 200

(***************************************************************************)
(* Invocations.  inv[i] is the i-th call of an operation: its arguments,   *)
(* the stage it has reached (pc), its locals (auth: what c.AuthToken()     *)
(* returned, req, doErr: the error of hc.Do, res), and, once it has        *)
(* returned, its result (ret) and the return statement taken (exit).       *)
(* via is the call of a facade method (its name, the client it wraps, its  *)
(* argument) that made the invocation, if one did, and fret what that      *)
(* method returned.  wire lists the requests hc.Do has put on the network  *)
(* for the operations, in order; redirects counts the further requests the *)
(* HTTP client made inside the same hc.Do call to follow redirects.        *)
(***************************************************************************)
NoReq == NewReq("", "", <<>>, FALSE)

NoRes == [StatusCode |-> 0, Status |-> "", Location |-> "",
          Body |-> [err |-> NilErr, val |-> Void]]

NoAuth == [token |-> "", err |-> NilErr]

NoVia == [op |-> "", client |-> NoClient, arg |-> ""]

Idle == [pc |-> "idle", op |-> "", c |-> NoClient, id |-> "", self |-> "",
         auth |-> NoAuth, req |-> NoReq, doErr |-> NilErr, redirects |-> 0,
         res |-> NoRes,
         ret |-> Ret(Void, NilErr), exit |-> "",
         via |-> NoVia, fret |-> Ret(Void, NilErr)]

\* Errors json.Marshal, or the multipart writer and io.Copy, may return.
EncodeErrs == {"json: unsupported type"}

\* The message an operation wraps around a failure to encode its payload.
EncodeMsg(op) ==
    IF op = "AddDocument" THEN "error uploading file"
                          ELSE "error marshalling customer into req body"

\* return <zero value>, err
Return(v, exit, ret) == [v EXCEPT !.pc = "done", !.exit = exit, !.ret = ret]

Init ==
    /\ inv = [i \in {1} |-> Idle]
    /\ wire = <<>>

\* The caller invokes an operation: a package function with client c and,
\* for GetCustomer and GetDocument, an ID; or a method of a *Customer with
\* Client c, ID id and, for ListTransfers, self link self.
Call(i) ==
    /\ inv[i].pc = "idle"
    /\ \E op \in Ops, c \in Clients :
         \E id \in (IF op \in {"Create", "List", "ListTransfers"} THEN {""} ELSE Ids),
            self \in (IF op = "ListTransfers" THEN SelfHrefs ELSE {""}) :
              inv' = [inv EXCEPT ![i] =
                        [Idle EXCEPT !.pc = "AuthToken", !.op = op, !.c = c,
                                     !.id = id, !.self = self]]
    /\ UNCHANGED wire

\* A faulty variant of AfterAuthToken: the error of c.AuthToken() is dropped.
AfterAuthTokenIgnoreErr(v) ==
    [v EXCEPT !.pc = IF v.op \in PayloadOps THEN "Encode" ELSE "NewRequest"]

\* if err != nil { return zero, errors.Wrap(err, "failed to get auth token") }
AfterAuthToken(v) ==
    IF v.auth.err # NilErr
    THEN Return(v, "token",
                Ret(ZeroValue(v.op), Wrap(v.auth.err, "failed to get auth token")))
    ELSE [v EXCEPT !.pc = IF v.op \in PayloadOps THEN "Encode" ELSE "NewRequest"]

\* A faulty variant of AuthToken: the token and error are kept in a
\* variable of the package, which every invocation reads.
AuthTokenShared(i) ==
    /\ inv[i].pc = "AuthToken"
    /\ \E r \in AuthTokenResults :
         inv' = [j \in DOMAIN inv |->
                   IF j = i THEN AfterAuthToken([inv[i] EXCEPT !.auth = r])
                            ELSE [inv[j] EXCEPT !.auth = r]]
    /\ UNCHANGED wire

\* token, err := c.AuthToken()
AuthToken(i) ==
    /\ inv[i].pc = "AuthToken"
    /\ \E r \in AuthTokenResults :
         inv' = [inv EXCEPT ![i] = AfterAuthToken([inv[i] EXCEPT !.auth = r])]
    /\ UNCHANGED wire

\* body, err := json.Marshal(...) (Create, Update, CreateFundingSource), or
\* the multipart body of AddDocument (CreateFormFile, io.Copy, WriteField).
AfterEncode(v, err) ==
    IF err # NilErr
    THEN Return(v, "encode", Ret(ZeroValue(v.op), Wrap(err, EncodeMsg(v.op))))
    ELSE [v EXCEPT !.pc = "NewRequest"]

Encode(i) ==
    /\ inv[i].pc = "Encode"
    /\ \E err \in {NilErr} \cup EncodeErrs :
         inv' = [inv EXCEPT ![i] = AfterEncode(inv[i], err)]
    /\ UNCHANGED wire

\* req, err := http.NewRequest(...); if err != nil { return ... };
\* req.Header.Add(...)
AfterNewRequest(v) ==
    LET req == Request(v.op, v.c, v.id, v.self, v.auth.token)
    IN  IF ~URLParses(req.URL)
        THEN Return(v, "newrequest",
                    Ret(ZeroValue(v.op),
                        Wrap("invalid URL escape", "error creating the request")))
        ELSE [v EXCEPT !.req = req, !.pc = "Do"]

NewRequest(i) ==
    /\ inv[i].pc = "NewRequest"
    /\ inv' = [inv EXCEPT ![i] = AfterNewRequest(inv[i])]
    /\ UNCHANGED wire

\* A faulty variant of AfterDoErr: a transport error sends the request again.
AfterDoErrRetry(v) == [v EXCEPT !.pc = "Do"]

\* if err != nil { return zero, errors.Wrap(err, "failed to make request
\* to dwolla api") }
AfterDoErr(v) ==
    Return(v, "transport",
           Ret(ZeroValue(v.op), Wrap(v.doErr, "failed to make request to dwolla api")))

\* res, err := hc.Do(req), the call: the request goes on the network and
\* the invocation blocks until the answer; a URL without scheme is refused
\* at once and nothing is sent.
Do(i) ==
    /\ inv[i].pc = "Do"
    /\ IF HasScheme(inv[i].req.URL)
       THEN /\ wire' = Append(wire, [by |-> i, req |-> inv[i].req])
            /\ inv' = [inv EXCEPT ![i].pc = "Await"]
       ELSE /\ inv' = [inv EXCEPT ![i] =
                         AfterDoErr([inv[i] EXCEPT !.doErr = NoSchemeErr])]
            /\ UNCHANGED wire

\* hc is a zero http.Client, so inside hc.Do a 3xx answer that carries a
\* Location is followed by a further request, and the invocation keeps
\* waiting.
Redirect(i) ==
    /\ inv[i].pc = "Await"
    /\ inv[i].redirects < MaxRedirects
    /\ inv' = [inv EXCEPT ![i].redirects = @ + 1]
    /\ UNCHANGED wire

\* res, err := hc.Do(req), the return: with an error, or with a response.
DoReturn(i) ==
    /\ inv[i].pc = "Await"
    /\ \/ \E err \in TransportErrs :
            inv' = [inv EXCEPT ![i] = AfterDoErr([inv[i] EXCEPT !.doErr = err])]
       \/ \E res \in Responses(inv[i].op, inv[i].c) :
            inv' = [inv EXCEPT ![i] = [inv[i] EXCEPT !.res = res, !.pc = "Switch"]]
    /\ UNCHANGED wire

\* switch res.StatusCode { ... }: every case returns.
AfterSwitch(v) == Return(v, "switch", Switch(v.op, v.c, v.res))

StatusSwitch(i) ==
    /\ inv[i].pc = "Switch"
    /\ inv' = [inv EXCEPT ![i] = AfterSwitch(inv[i])]
    /\ UNCHANGED wire

Next ==
    \/ \E i \in DOMAIN inv : Call(i)
    \/ \E i \in DOMAIN inv : AuthToken(i)
    \/ \E i \in DOMAIN inv : Encode(i)
    \/ \E i \in DOMAIN inv : NewRequest(i)
    \/ \E i \in DOMAIN inv : Do(i)
    \/ \E i \in DOMAIN inv : Redirect(i)
    \/ \E i \in DOMAIN inv : DoReturn(i)
    \/ \E i \in DOMAIN inv : StatusSwitch(i)

Spec == Init /\ [][Next]_vars

(***************************************************************************)
(* The facade (src/dwolla/dwolla.go): a Client that wraps a client.Client  *)
(* and whose methods call the resource modules.  The modules account,      *)
(* transfer and funding are called but not modelled stage by stage: their  *)
(* functions return one of a few results.                                  *)
(***************************************************************************)
FacadeOps == {"RetrieveAccount", "CreateCustomer", "ListCustomers", "GetCustomer",
              "GetDocument", "GetFundingSource", "CreateTransfer", "GetTransfer",
              "CreateOnDemandAuth"}

\* The functions of the modules account, funding and transfer.
ExternOps == {"account.RetrieveAccount", "funding.GetFundingSource",
              "transfer.CreateTransfer", "transfer.GetTransfer",
              "transfer.CreateOnDemandAuth"}

\* The resource-module function each facade method calls.
Delegate(f) ==
    CASE f = "RetrieveAccount" -> "account.RetrieveAccount"
      [] f = "CreateCustomer" -> "Create"
      [] f = "ListCustomers" -> "List"
      [] f = "GetCustomer" -> "GetCustomer"
      [] f = "GetDocument" -> "GetDocument"
      [] f = "GetFundingSource" -> "funding.GetFundingSource"
      [] f = "CreateTransfer" -> "transfer.CreateTransfer"
      [] f = "GetTransfer" -> "transfer.GetTransfer"
      [] f = "CreateOnDemandAuth" -> "transfer.CreateOnDemandAuth"

\* Facade methods that take an ID.
FacadeIdOps == {"GetCustomer", "GetDocument", "GetFundingSource", "GetTransfer"}

\* What a function of account, funding or transfer returns, called on
\* client c with ID id: a value and a nil error, or a zero value and an error.
ExternResults(op, c, id) ==
    CASE op \in {"account.RetrieveAccount", "funding.GetFundingSource",
                 "transfer.GetTransfer"} ->
           {Ret([Client |-> c, ID |-> id], NilErr), Ret(NilPtr, "401 Unauthorized")}
      [] op = "transfer.CreateTransfer" ->
           {Ret(Void, NilErr), Ret(Void, "401 Unauthorized")}
      [] op = "transfer.CreateOnDemandAuth" ->
           {Ret("od-token", NilErr), Ret("", "401 Unauthorized")}

\* The result types each facade method is declared with.
DeclaredResults(f) ==
    CASE f = "RetrieveAccount" -> <<"*account.Account", "error">>
      [] f = "CreateCustomer" -> <<"error">>
      [] f = "ListCustomers" -> <<"[]customer.Customer", "error">>
      [] f = "GetCustomer" -> <<"*customer.Customer", "error">>
      [] f = "GetDocument" -> <<"*customer.Document", "error">>
      [] f = "GetFundingSource" -> <<"*funding.Resource", "error">>
      [] f = "CreateTransfer" -> <<"error">>
      [] f = "GetTransfer" -> <<"*transfer.Transfer", "error">>
      [] f = "CreateOnDemandAuth" -> <<"string", "error">>

\* The result types of the functions of package customer the facade calls.
CustomerResults(op) ==
    CASE op = "Create" -> <<"string", "error">>
      [] op = "List" -> <<"[]customer.Customer", "error">>
      [] op = "GetCustomer" -> <<"*customer.Customer", "error">>
      [] op = "GetDocument" -> <<"*customer.Document", "error">>

\* The result types of the functions of account, funding and transfer.
ExternResultTypes(op) ==
    CASE op = "account.RetrieveAccount" -> <<"*account.Account", "error">>
      [] op = "funding.GetFundingSource" -> <<"*funding.Resource", "error">>
      [] op = "transfer.CreateTransfer" -> <<"error">>
      [] op = "transfer.GetTransfer" -> <<"*transfer.Transfer", "error">>
      [] op = "transfer.CreateOnDemandAuth" -> <<"string", "error">>

\* `return module.F(...)` type-checks when F returns exactly the results
\* the method is declared with.
TypeChecks(f) ==
    DeclaredResults(f) =
        (IF Delegate(f) \in Ops THEN CustomerResults(Delegate(f))
                                ELSE ExternResultTypes(Delegate(f)))

\* func (c *Client) M(arg) ... { return module.F(c.client, arg) }: the call.
\* A method that does not type-check has no compiled form: nothing is
\* called and nothing returns.  (Its package does not build as a whole;
\* the other methods are modelled as their own text reads.)
FacadeEnter(f, client, arg) ==
    IF TypeChecks(f)
    THEN [Idle EXCEPT !.pc = IF Delegate(f) \in Ops THEN "AuthToken" ELSE "Extern",
                      !.op = Delegate(f), !.c = client, !.id = arg,
                      !.via = [op |-> f, client |-> client, arg |-> arg]]
    ELSE [Idle EXCEPT !.pc = "nobuild",
                      !.via = [op |-> f, client |-> client, arg |-> arg]]

\* return module.F(c.client, arg): what the method hands to its caller of
\* the callee's result ret.
FacadeResult(f, ret) == ret

\* A method of the facade Client is called.
FacadeCall(i) ==
    /\ inv[i].pc = "idle"
    /\ \E f \in FacadeOps, client \in Clients :
         \E arg \in (IF f \in FacadeIdOps THEN Ids ELSE {""}) :
            inv' = [inv EXCEPT ![i] = FacadeEnter(f, client, arg)]
    /\ UNCHANGED wire

\* A function of account, funding or transfer returns.
ExternReturn(i) ==
    /\ inv[i].pc = "Extern"
    /\ \E r \in ExternResults(inv[i].op, inv[i].c, inv[i].id) :
         inv' = [inv EXCEPT ![i] = Return(inv[i], "extern", r)]
    /\ UNCHANGED wire

\* The facade method returns what its callee returned.
FacadeReturn(i) ==
    /\ inv[i].pc = "done"
    /\ inv[i].via # NoVia
    /\ inv' = [inv EXCEPT ![i] =
                 [inv[i] EXCEPT !.pc = "returned",
                                !.fret = FacadeResult(inv[i].via.op, inv[i].ret)]]
    /\ UNCHANGED wire

\* The methods that compile call List, GetCustomer, GetDocument and the
\* functions of the other modules: none of them encodes a payload.
NextFacade ==
    \/ \E i \in DOMAIN inv : FacadeCall(i)
    \/ \E i \in DOMAIN inv : AuthToken(i)
    \/ \E i \in DOMAIN inv : NewRequest(i)
    \/ \E i \in DOMAIN inv : Do(i)
    \/ \E i \in DOMAIN inv : Redirect(i)
    \/ \E i \in DOMAIN inv : DoReturn(i)
    \/ \E i \in DOMAIN inv : StatusSwitch(i)
    \/ \E i \in DOMAIN inv : ExternReturn(i)
    \/ \E i \in DOMAIN inv : FacadeReturn(i)

SpecFacade == Init /\ [][NextFacade]_vars

(***************************************************************************)
(* Concurrent callers: MaxCalls invocations on one client, their stages    *)
(* interleaved in every order.  The operations are List and Update, the    *)
(* responses a few of those hc.Do may return.                              *)
(***************************************************************************)
InitConc ==
    /\ inv = [i \in 1..MaxCalls |-> Idle]
    /\ wire = <<>>

\* The calls made: List(c), or Update on customer abc-123, on the sandbox
\* client.
ConcCall(v) ==
    /\ v.c = "sandbox"
    /\ \/ v.op = "List"
       \/ v.op = "Update" /\ v.id = "abc-123"

\* The answers received: a transport error, or a 200 or 404 whose body
\* decodes and holds one customer.
ConcAnswer(v) ==
    \/ v.doErr # NilErr
    \/ /\ v.res.StatusCode \in {200, 404}
       /\ v.res.Body.err = NilErr
       /\ v.op = "List" =>
             v.res.Body.val.Embedded = ("customers" :> <<Decoded("abc-123")>>)

NextConc ==
    \/ \E i \in DOMAIN inv : Call(i) /\ ConcCall(inv'[i])
    \/ \E i \in DOMAIN inv : AuthToken(i)
    \/ \E i \in DOMAIN inv : Encode(i)
    \/ \E i \in DOMAIN inv : NewRequest(i)
    \/ \E i \in DOMAIN inv : Do(i)
    \/ \E i \in DOMAIN inv : DoReturn(i) /\ ConcAnswer(inv'[i])
    \/ \E i \in DOMAIN inv : StatusSwitch(i)

SpecConc == InitConc /\ [][NextConc]_vars

(***************************************************************************)
(* Vocabulary of the properties.                                           *)
(***************************************************************************)
\* The number of requests hc.Do has put on the network for invocation i.
SentBy(i) == Cardinality({k \in DOMAIN wire : wire[k].by = i})

\* The number of HTTP requests made for invocation i: its own and those
\* that followed redirects.
HTTPRequests(i) == SentBy(i) + inv[i].redirects

\* Invocation record v has returned from its status switch.
Switched(v) == v.pc = "done" /\ v.res # NoRes

\* The number of places at which p occurs in s.
Occurrences(s, p) ==
    Cardinality({k \in 1..(Len(s) - Len(p) + 1) : SubSeq(s, k, k + Len(p) - 1) = p})

\* The three error categories the status codes 400, 403 and 404 stand for.
IsValidationErr(err) == HasPrefix(err, "duplicate ") /\ Contains(err, "validation error")

IsAuthorizationErr(err) == HasPrefix(err, "not authorized to ")

IsNotFoundErr(err) == HasSuffix(err, " not found")

\* Operations whose success case decodes the response body.
DecodingOps == ListOps \cup EntityOps
                   \cup {"CreateFundingSourceToken", "CreateIAVFundingSourceToken"}

\* The collection key each list operation is documented to read.
ExpectedKey(op) ==
    CASE op = "List" -> "customers"
      [] op = "ListDocuments" -> "documents"
      [] op = "ListFundingSources" -> "funding-sources"
      [] op = "ListTransfers" -> "transfers"

\* The URL each operation is documented to call.
DocumentedURL(v) ==
    CASE v.op \in {"Create", "List"} -> RootURL(v.c) \o "/customers"
      [] v.op \in {"GetCustomer", "Update"} -> RootURL(v.c) \o "/customers/" \o v.id
      [] v.op \in {"AddDocument", "ListDocuments"} ->
           RootURL(v.c) \o "/customers/" \o v.id \o "/documents"
      [] v.op = "GetDocument" -> RootURL(v.c) \o "/documents/" \o v.id
      [] v.op \in {"CreateFundingSource", "ListFundingSources"} ->
           RootURL(v.c) \o "/customers/" \o v.id \o "/funding-sources"
      [] v.op = "CreateFundingSourceToken" ->
           RootURL(v.c) \o "/customers/" \o v.id \o "/funding-sources-token"
      [] v.op = "CreateIAVFundingSourceToken" ->
           RootURL(v.c) \o "/customers/" \o v.id \o "/iav-token"
      [] v.op = "ListTransfers" -> v.self \o "/transfers"

(***************************************************************************)
(* C1.  In every operation, a response with status 400 yields the          *)
(* validation error, 403 the authorization error, 404 the not-found error  *)
(* ("account not found" for GetCustomer), any other status that is not the *)
(* success code the raw status text; none of them yields a nil error.      *)
(* The code has no case 400 in ten operations, no case 403 in two and no   *)
(* case 404 in one: there the status text is returned instead.             *)
(***************************************************************************)
C1_StatusErrors ==
    \A i \in DOMAIN inv :
        LET v == inv[i]
            code == v.res.StatusCode
        IN  Switched(v) =>
              /\ code = 400 => IsValidationErr(v.ret.err)
              /\ code = 403 => IsAuthorizationErr(v.ret.err)
              /\ code = 404 => /\ IsNotFoundErr(v.ret.err)
                               /\ v.op = "GetCustomer" => v.ret.err = "account not found"
              /\ code \notin {400, 403, 404, SuccessCode(v.op)} => v.ret.err = v.res.Status
              /\ code # SuccessCode(v.op) => v.ret.err # NilErr

(***************************************************************************)
(* C2, as claimed.  A 201 response to Create returns a nil error and the   *)
(* part of the Location header after rootURL + "/customers/", and the ID   *)
(* returned never contains that prefix.                                    *)
(***************************************************************************)
C2_IDFollowsPrefix ==
    \A i \in DOMAIN inv :
        LET v == inv[i]
            prefix == RootURL(v.c) \o "/customers/"
        IN  (Switched(v) /\ v.op = "Create" /\ v.res.StatusCode = 201) =>
              /\ v.ret.err = NilErr
              /\ prefix \o v.ret.val = v.res.Location
              /\ ~Contains(v.ret.val, prefix)

(***************************************************************************)
(* C2, amended.  A 201 response to Create returns a nil error; when the    *)
(* Location header begins with rootURL + "/customers/" the ID is what      *)
(* follows that first prefix, otherwise the ID is the header unchanged;    *)
(* the ID contains the prefix only if the header did not begin with it or  *)
(* holds it more than once.                                                *)
(***************************************************************************)
C2_IDIsTrimmedLocation ==
    \A i \in DOMAIN inv :
        LET v == inv[i]
            prefix == RootURL(v.c) \o "/customers/"
            loc == v.res.Location
        IN  (Switched(v) /\ v.op = "Create" /\ v.res.StatusCode = 201) =>
              /\ v.ret.err = NilErr
              /\ HasPrefix(loc, prefix) => prefix \o v.ret.val = loc
              /\ ~HasPrefix(loc, prefix) => v.ret.val = loc
              /\ Contains(v.ret.val, prefix) =>
                    ~HasPrefix(loc, prefix) \/ Occurrences(loc, prefix) > 1

\* Create has returned abc-123 for a Location of rootURL/customers/abc-123.
C2_Witness ==
    \E i \in DOMAIN inv :
        /\ Switched(inv[i]) /\ inv[i].op = "Create" /\ inv[i].res.StatusCode = 201
        /\ inv[i].res.Location = RootURL(inv[i].c) \o "/customers/abc-123"
        /\ inv[i].ret = Ret("abc-123", NilErr)

(***************************************************************************)
(* C3.  When the response has the success status and its body cannot be    *)
(* decoded, or the payload cannot be encoded, the operation returns a      *)
(* non-nil error that wraps the cause.  Seven operations drop the error of *)
(* d.Decode and return nil.                                                *)
(***************************************************************************)
C3_SerializationErrors ==
    \A i \in DOMAIN inv :
        LET v == inv[i]
        IN  /\ (/\ Switched(v)
                /\ v.op \in DecodingOps
                /\ v.res.StatusCode = SuccessCode(v.op)
                /\ v.res.Body.err # NilErr) =>
                  /\ v.ret.err # NilErr
                  /\ Contains(v.ret.err, v.res.Body.err)
            /\ (v.pc = "done" /\ v.exit = "encode") => v.ret.err # NilErr

(***************************************************************************)
(* C4.  Every entity a successful List, GetCustomer, ListDocuments,        *)
(* GetDocument or ListFundingSources returns has its Client set to the     *)
(* client the call was made through.  List sets it on a copy,              *)
(* ListDocuments and GetDocument not at all.                               *)
(***************************************************************************)
C4_ClientSet ==
    \A i \in DOMAIN inv :
        LET v == inv[i]
        IN  (Switched(v) /\ v.ret.err = NilErr) =>
              /\ v.op \in {"List", "ListDocuments", "ListFundingSources"} =>
                    \A k \in DOMAIN v.ret.val : v.ret.val[k].Client = v.c
              /\ v.op \in {"GetCustomer", "GetDocument"} => v.ret.val.Client = v.c

(***************************************************************************)
(* C5.  The token is acquired before a request is built or sent, and when  *)
(* c.AuthToken() returns an error the operation returns that error wrapped *)
(* as an auth failure beside a zero result, and no request is ever sent.   *)
(***************************************************************************)
C5_TokenFirst ==
    \A i \in DOMAIN inv :
        LET v == inv[i]
        IN  /\ v.pc \in {"idle", "AuthToken"} => v.req = NoReq /\ SentBy(i) = 0
            /\ v.auth.err # NilErr =>
                  /\ v.pc = "done"
                  /\ v.ret.err = Wrap(v.auth.err, "failed to get auth token")
                  /\ v.ret.err # NilErr
                  /\ v.ret.val = ZeroValue(v.op)
                  /\ v.req = NoReq
                  /\ SentBy(i) = 0

\* An operation has returned after c.AuthToken() failed.
C5_Witness ==
    \E i \in DOMAIN inv :
        /\ inv[i].pc = "done"
        /\ inv[i].auth.err # NilErr
        /\ inv[i].ret.err = "failed to get auth token: invalid_client"

(***************************************************************************)
(* C6, as stated.  An invocation sends at most one HTTP request.  It       *)
(* returns from exactly one place: the token failure, a failure to         *)
(* construct the request (its payload or the request itself) - both before *)
(* anything is sent -, the transport failure, or the status switch of the  *)
(* single response.  A transport failure ends the invocation with a        *)
(* network error and a zero result, and no second request.  The HTTP       *)
(* client follows redirects, and each one followed is a second request.    *)
(***************************************************************************)
C6_SingleRoundTrip ==
    \A i \in DOMAIN inv :
        LET v == inv[i]
        IN  /\ HTTPRequests(i) <= 1
            /\ v.pc = "done" =>
                  /\ v.exit \in {"token", "encode", "newrequest", "transport", "switch"}
                  /\ v.exit \in {"token", "encode", "newrequest"} =>
                        HTTPRequests(i) = 0 /\ v.res = NoRes /\ v.ret.err # NilErr
                  /\ v.exit = "transport" <=> v.doErr # NilErr
                  /\ v.exit = "switch" <=> v.res # NoRes
            /\ v.doErr # NilErr =>
                  /\ v.pc = "done"
                  /\ v.res = NoRes
                  /\ v.ret.err = Wrap(v.doErr, "failed to make request to dwolla api")
                  /\ v.ret.err # NilErr
                  /\ v.ret.val = ZeroValue(v.op)

(***************************************************************************)
(* C6, amended.  An invocation calls hc.Do at most once and puts at most   *)
(* one request of its own on the network; further requests are only those  *)
(* the HTTP client makes inside that call to follow redirects.  It returns *)
(* from exactly one place: the token failure or a failure to construct the *)
(* request - both before anything is sent -, the transport failure, or the *)
(* status switch of the response hc.Do returned.  A transport failure ends *)
(* the invocation with a network error and a zero result; neither it nor   *)
(* a status that reaches the switch makes the operation send again.        *)
(***************************************************************************)
C6_OneCallOfDo ==
    \A i \in DOMAIN inv :
        LET v == inv[i]
        IN  /\ SentBy(i) <= 1
            /\ v.redirects > 0 => SentBy(i) = 1
            /\ v.pc = "Await" => SentBy(i) = 1 /\ v.res = NoRes /\ v.doErr = NilErr
            /\ v.pc = "done" =>
                  /\ v.exit \in {"token", "encode", "newrequest", "transport", "switch"}
                  /\ v.exit \in {"token", "encode", "newrequest"} =>
                        HTTPRequests(i) = 0 /\ v.res = NoRes /\ v.ret.err # NilErr
                  /\ v.exit = "transport" <=> v.doErr # NilErr
                  /\ v.exit = "switch" <=> v.res # NoRes
                  /\ v.exit = "switch" => SentBy(i) = 1
                  /\ v.exit = "transport" =>
                        SentBy(i) = (IF HasScheme(v.req.URL) THEN 1 ELSE 0)
            /\ v.doErr # NilErr =>
                  /\ v.pc = "done"
                  /\ v.res = NoRes
                  /\ v.ret.err = Wrap(v.doErr, "failed to make request to dwolla api")
                  /\ v.ret.err # NilErr
                  /\ v.ret.val = ZeroValue(v.op)

\* Update has returned the network error: its one request was redirected,
\* and the request that followed the redirect failed.
C6_Witness ==
    \E i \in DOMAIN inv :
        /\ inv[i].op = "Update" /\ inv[i].pc = "done"
        /\ inv[i].doErr # NilErr
        /\ SentBy(i) = 1 /\ inv[i].redirects = 1
        /\ inv[i].ret.err # NilErr

(***************************************************************************)
(* C7.  Every request sent carries Authorization: Bearer <the token of     *)
(* this invocation> and the vendor Accept type; its Content-Type is the    *)
(* vendor type, or multipart/form-data for the document upload.  Five      *)
(* operations add no Content-Type and two add "Conetent-Type".             *)
(***************************************************************************)
C7_StandardHeaders ==
    \A k \in DOMAIN wire :
        LET v == inv[wire[k].by]
            h == wire[k].req.Header
        IN  /\ Get(h, "Authorization") = "Bearer " \o v.auth.token
            /\ Get(h, "Accept") = HalJSON
            /\ v.op # "AddDocument" => Get(h, "Content-Type") = HalJSON
            /\ v.op = "AddDocument" => HasPrefix(Get(h, "Content-Type"), "multipart/form-data")

(***************************************************************************)
(* C8.  Every request goes to the root URL followed by the documented path *)
(* of its operation with the ID in place of {id}; ListTransfers goes to    *)
(* the self link followed by /transfers.  AddDocument puts a "+" before    *)
(* the ID.                                                                 *)
(***************************************************************************)
C8_DocumentedURLs ==
    \A k \in DOMAIN wire : wire[k].req.URL = DocumentedURL(inv[wire[k].by])

(***************************************************************************)
(* C9.  AddDocument returns a nil error for a 201 response whatever its    *)
(* body, and a non-nil error for every other status, 200 included.         *)
(***************************************************************************)
C9_UploadOnly201 ==
    \A i \in DOMAIN inv :
        LET v == inv[i]
        IN  (Switched(v) /\ v.op = "AddDocument") =>
              (v.ret.err = NilErr <=> v.res.StatusCode = 201)

\* AddDocument has returned nil for a 201 whose body does not decode.
C9_Witness ==
    \E i \in DOMAIN inv :
        /\ Switched(inv[i]) /\ inv[i].op = "AddDocument"
        /\ inv[i].res.StatusCode = 201
        /\ inv[i].res.Body.err # NilErr
        /\ inv[i].ret.err = NilErr

(***************************************************************************)
(* C10.  A list operation that gets a 200 response whose envelope decodes  *)
(* returns a nil error and the entries under its collection key, as many   *)
(* and in the same order: none when there are none.                        *)
(***************************************************************************)
C10_ListReturnsEntries ==
    \A i \in DOMAIN inv :
        LET v == inv[i]
            entries == Lookup(v.res.Body.val.Embedded, ExpectedKey(v.op))
        IN  (/\ Switched(v)
             /\ v.op \in ListOps
             /\ v.res.StatusCode = 200
             /\ v.res.Body.err = NilErr) =>
              /\ v.ret.err = NilErr
              /\ Len(v.ret.val) = Len(entries)
              /\ \A k \in 1..Len(entries) : v.ret.val[k].ID = entries[k].ID

\* ListFundingSources has returned two different sources in their order.
C10_Witness ==
    \E i \in DOMAIN inv :
        /\ Switched(inv[i]) /\ inv[i].op = "ListFundingSources"
        /\ inv[i].res.StatusCode = 200
        /\ inv[i].res.Body.err = NilErr
        /\ Len(inv[i].ret.val) = 2
        /\ inv[i].ret.val[1].ID = "xyz"
        /\ inv[i].ret.val[2].ID = "abc-123"
        /\ inv[i].ret.err = NilErr

(***************************************************************************)
(* C11.  Every method of the facade Client calls the matching function of  *)
(* a resource module with its own argument and the client it wraps, and    *)
(* returns that function's whole result unchanged: for CreateCustomer the  *)
(* customer ID and the error of customer.Create.  CreateCustomer is        *)
(* declared to return an error alone and returns the (string, error) of    *)
(* customer.Create: it does not compile, so a call of it reaches nothing.  *)
(***************************************************************************)
C11_FacadeDelegates ==
    \A i \in DOMAIN inv :
        LET v == inv[i]
        IN  v.via # NoVia =>
              /\ v.pc # "nobuild"
              /\ v.op = Delegate(v.via.op)
              /\ v.c = v.via.client
              /\ v.id = v.via.arg
              /\ v.pc = "returned" => v.fret = v.ret

(***************************************************************************)
(* C12.  When operations run concurrently on one client, in any            *)
(* interleaving of their stages, a step of one invocation changes nothing  *)
(* of another (its arguments, token, request, response, result) and puts   *)
(* on the wire only its own request; and the result of an invocation is    *)
(* determined by its own arguments, token and response: two invocations    *)
(* that agree on these return the same, and every request sent is the one  *)
(* built from the sender's own arguments and token.                        *)
(***************************************************************************)
\* What an invocation's result may depend on.
OwnInputs(v) == <<v.op, v.c, v.id, v.self, v.auth, v.doErr, v.res, v.exit>>

C12_Determined ==
    /\ \A i, j \in DOMAIN inv :
          (inv[i].pc = "done" /\ inv[j].pc = "done"
              /\ OwnInputs(inv[i]) = OwnInputs(inv[j])) =>
            inv[i].ret = inv[j].ret
    /\ \A i \in DOMAIN inv :
          inv[i].req # NoReq =>
            inv[i].req = Request(inv[i].op, inv[i].c, inv[i].id, inv[i].self,
                                 inv[i].auth.token)
    /\ \A k \in DOMAIN wire : wire[k].req = inv[wire[k].by].req

C12_StepIsOwn ==
    /\ \A i \in DOMAIN inv :
          inv'[i] # inv[i] => \A j \in DOMAIN inv \ {i} : inv'[j] = inv[j]
    /\ \/ wire' = wire
       \/ \E i \in DOMAIN inv :
            /\ inv'[i] # inv[i]
            /\ wire' = Append(wire, [by |-> i, req |-> inv[i].req])

C12_Independent == [](C12_Determined) /\ [][C12_StepIsOwn]_vars

\* List sent its request first and is still waiting for the answer, while
\* Update, with another token, sent its request after it, was answered
\* 404 and has returned.
C12_Witness ==
    /\ inv[1].op = "List" /\ inv[1].pc = "Await"
    /\ inv[1].res = NoRes /\ inv[1].doErr = NilErr
    /\ inv[2].op = "Update" /\ inv[2].pc = "done"
    /\ inv[2].res.StatusCode = 404
    /\ inv[2].ret.err = "account not found"
    /\ inv[1].auth.token # inv[2].auth.token
    /\ Len(wire) = 2 /\ wire[1].by = 1 /\ wire[2].by = 2

==========================================================================
